---- MODULE Spec2Model ----
(***************************************************************************)
(* A model of sivchari/ezproto: the indentation-aware CodeBuilder and its  *)
(* typed sub-builders (builder.go), the schema facade (file.go), the       *)
(* generation Context (context.go) and the plugin Driver (plugin.go).      *)
(*                                                                         *)
(* A scope operation such as Block(header, fn) runs the callback fn in the *)
(* middle of its own body.  The model keeps the Go call stack of the scope *)
(* operations that are currently executing their callback: the operation   *)
(* is entered by one step (everything before fn is called), the callback's *)
(* statements are steps of their own, and the operation returns by one     *)
(* step (everything after fn returns).                                     *)
(***************************************************************************)
EXTENDS Integers, Sequences, FiniteSets, TLC

VARIABLES
    cb,        \* the CodeBuilder: [lines, indent]             (builder.go:8-12)
    stack,     \* scope operations whose callback is running, innermost last
    nops,      \* number of builder operations the generator has called
    last,      \* the builder operation that acted last, with its arguments
    output,    \* Context.output: 0 is nil, i > 0 is genfiles[i] (context.go:17)
    genfiles,  \* the files made by gen.NewGeneratedFile: [name, written]
    proto,     \* the compiled descriptor of one file (protogen.File)
    build,     \* which copy of file.go the facade is built from
    fret,      \* the method or function that ran last, its receiver or
               \* arguments, and its result
    plugin,    \* the Plugin: [options, generators]           (plugin.go:19-23)
    regs,      \* the GenerateFor calls made so far, in call order
    request,   \* what protoc hands to Run: [parameter, files]
    run,       \* where Run is: [pc, fi, pending, nctx, err]
    calls      \* the generator callbacks Run has invoked, in order

bvars == <<cb, stack, nops, last, output, genfiles>>
fvars == <<proto, build, fret>>
dvars == <<plugin, regs, request, run, calls>>
vars == <<cb, stack, nops, last, output, genfiles, proto, build, fret,
          plugin, regs, request, run, calls>>

----------------------------------------------------------------------------
(* Bounds of the model.                                                    *)

\* the generator calls at most MaxOps builder operations in one run
MaxOps == 3

\* in the switch scenario, the Switch is called inside at most MaxPrelude Blocks
MaxPrelude == 2

\* a file has at most MaxTop messages, MaxTop services and MaxTop enums
MaxTop == 2

\* a message, service, enum or oneof has at most MaxChildren children
MaxChildren == 3

\* the plugin's main calls GenerateFor at most MaxRegs times
MaxRegs == 2

\* protoc hands at most MaxFiles files to the plugin
MaxFiles == 2

----------------------------------------------------------------------------
(* Strings.  Rendered lines are TLA+ strings (only concatenation and       *)
(* equality are needed); file names and paths, which the code inspects by  *)
(* character, are sequences of one-character strings.                      *)

\* strings.Repeat(s, n)
RECURSIVE Repeat(_, _)
Repeat(s, n) == IF n <= 0 THEN "" ELSE s \o Repeat(s, n - 1)

\* strings.Join(elems, sep)
RECURSIVE Join(_, _)
Join(elems, sep) ==
    IF Len(elems) = 0 THEN ""
    ELSE IF Len(elems) = 1 THEN elems[1]
    ELSE elems[1] \o sep \o Join(Tail(elems), sep)

\* strings.HasSuffix(s, suffix), on character sequences
HasSuffix(s, suffix) ==
    /\ Len(s) >= Len(suffix)
    /\ SubSeq(s, Len(s) - Len(suffix) + 1, Len(s)) = suffix

\* strings.TrimSuffix(s, suffix), on character sequences
TrimSuffix(s, suffix) ==
    IF HasSuffix(s, suffix) THEN SubSeq(s, 1, Len(s) - Len(suffix)) ELSE s

----------------------------------------------------------------------------
(* CodeBuilder: the pure effect of each piece of code on the builder b.    *)

\* NewCodeBuilder: lines is empty, indent is the zero value
NewCodeBuilder == [lines |-> <<>>, indent |-> 0]

\* cb.Line(format, args...), s being fmt.Sprintf(format, args...)
DoLine(b, s) == [b EXCEPT !.lines = Append(@, Repeat("\t", b.indent) \o s)]

\* mutant of DoEmptyLine: the buffer replaced instead of appended to
DoEmptyLineReset(b) == [b EXCEPT !.lines = <<"">>]

\* mutant of DoEmptyLine: the blank line gets the indentation prefix
DoEmptyLineIndented(b) == [b EXCEPT !.lines = Append(@, Repeat("\t", b.indent))]

\* cb.EmptyLine()
DoEmptyLine(b) == [b EXCEPT !.lines = Append(@, "")]

\* cb.indent++
IndentInc(b) == [b EXCEPT !.indent = @ + 1]

\* cb.indent--
IndentDec(b) == [b EXCEPT !.indent = @ - 1]

\* Block, before fn(cb): cb.Line("%s {", header); cb.indent++
BlockOpen(b, header) == IndentInc(DoLine(b, header \o " {"))

\* mutant of BlockClose: the closing line written before the decrement
BlockCloseLate(b) == IndentDec(DoLine(b, "}"))

\* Block, after fn(cb): cb.indent--; cb.Line("}")
BlockClose(b) == DoLine(IndentDec(b), "}")

\* Struct, before fn(sb): cb.Line("type %s struct {", name); cb.indent++
StructOpen(b, name) == IndentInc(DoLine(b, "type " \o name \o " struct {"))

\* Struct, after fn(sb)
StructClose(b) == DoLine(IndentDec(b), "}")

\* Interface, before fn(ib)
InterfaceOpen(b, name) == IndentInc(DoLine(b, "type " \o name \o " interface {"))

\* Interface, after fn(ib)
InterfaceClose(b) == DoLine(IndentDec(b), "}")

\* ConstBlock, before fn(constB)
ConstBlockOpen(b) == IndentInc(DoLine(b, "const ("))

\* ConstBlock, after fn(constB)
ConstBlockClose(b) == DoLine(IndentDec(b), ")")

\* VarBlock, before fn(varB)
VarBlockOpen(b) == IndentInc(DoLine(b, "var ("))

\* VarBlock, after fn(varB)
VarBlockClose(b) == DoLine(IndentDec(b), ")")

\* Switch, before fn(sb): the header depends on expr being empty
SwitchOpen(b, expr) ==
    IndentInc(IF expr # "" THEN DoLine(b, "switch " \o expr \o " {")
                           ELSE DoLine(b, "switch {"))

\* Switch, after fn(sb)
SwitchClose(b) == DoLine(IndentDec(b), "}")

\* mutant of CaseOpen: the increment forgotten
CaseOpenNoInc(b, value) == DoLine(b, "case " \o value \o ":")

\* SwitchBuilder.Case, before fn(sb.cb)
CaseOpen(b, value) == IndentInc(DoLine(b, "case " \o value \o ":"))

\* mutants of CaseClose: the decrement forgotten; a closing brace added
CaseCloseNoDec(b) == b
CaseCloseBrace(b) == DoLine(IndentDec(b), "}")

\* SwitchBuilder.Case, after fn(sb.cb): sb.cb.indent--, no closing line
CaseClose(b) == IndentDec(b)

\* SwitchBuilder.Default, before fn(sb.cb)
DefaultOpen(b) == IndentInc(DoLine(b, "default:"))

\* SwitchBuilder.Default, after fn(sb.cb)
DefaultClose(b) == IndentDec(b)

\* cb.Import(path)
DoImport(b, path) == DoLine(b, "import \"" \o path \o "\"")

\* ImportBlock: the loop  for _, imp := range imports { cb.Line("\"%s\"", imp) }
RECURSIVE ImportLoop(_, _)
ImportLoop(b, imports) ==
    IF Len(imports) = 0 THEN b
    ELSE ImportLoop(DoLine(b, "\"" \o Head(imports) \o "\""), Tail(imports))

\* cb.ImportBlock(imports)
DoImportBlock(b, imports) ==
    IF Len(imports) = 0 THEN b
    ELSE IF Len(imports) = 1 THEN DoImport(b, imports[1])
    ELSE DoLine(IndentDec(ImportLoop(IndentInc(DoLine(b, "import (")), imports)), ")")

----------------------------------------------------------------------------
(* The headers the wrappers of Block build, and the text of the one-line   *)
(* helpers (each is cb.Line with a fixed format).                          *)

\* Function: cb.Block("func "+signature, fn)
FunctionHeader(signature) == "func " \o signature

\* Method: the signature it hands to Function
MethodSignature(receiver, name, params, returns) ==
    LET signature == "(" \o receiver \o ") " \o name \o "(" \o params \o ")"
    IN  IF returns # "" THEN signature \o " " \o returns ELSE signature

\* If: cb.Block("if "+condition, fn)
IfHeader(condition) == "if " \o condition

\* IfErr: cb.If("err != nil", fn)
IfErrHeader == IfHeader("err != nil")

\* For: forStmt
ForHeader(init, condition, post) ==
    IF init # "" \/ condition # "" \/ post # ""
    THEN "for" \o " " \o init \o "; " \o condition \o "; " \o post
    ELSE "for"

\* ForRange
ForRangeHeader(variable, iterable) == "for " \o variable \o " := range " \o iterable

\* the Go raw-string quote; the apostrophe stands for it here, because a TLA+
\* string cannot hold that character
Backquote == "'"

CommentText(text) == "// " \o text
PackageText(name) == "package " \o name
ReturnText(values) ==
    IF Len(values) = 0 THEN "return" ELSE "return " \o Join(values, ", ")
AssignText(left, right) == left \o " = " \o right
DeclareAssignText(left, right) == left \o " := " \o right
ConstText(name, value) == "const " \o name \o " = " \o value
VarText(name, typ, value) ==
    IF Len(value) > 0 THEN "var " \o name \o " " \o typ \o " = " \o value[1]
    ELSE "var " \o name \o " " \o typ
TypeAliasText(name, typ) == "type " \o name \o " = " \o typ
RawStringText(content) == Backquote \o content \o Backquote
BuildTagText(tag) == "//go:build " \o tag
GoGenerateText(tag) == "//go:generate " \o tag

\* StructBuilder.Field: the line it renders
FieldText(name, typ, tags) ==
    LET line == name \o " " \o typ
    IN  IF Len(tags) > 0
        THEN line \o " " \o Backquote \o Join(tags, " ") \o Backquote
        ELSE line

\* InterfaceBuilder.Method: the signature it renders
InterfaceMethodText(name, params, returns) ==
    LET signature == name \o "(" \o params \o ")"
    IN  IF returns # "" THEN signature \o " " \o returns ELSE signature

\* ConstBuilder.Const / ConstWithType
ConstEntryText(name, value) == name \o " = " \o value
ConstWithTypeText(name, typ, value) == name \o " " \o typ \o " = " \o value

\* VarBuilder.Var
VarEntryText(name, typ, value) ==
    IF Len(value) > 0 THEN name \o " " \o typ \o " = " \o value[1]
    ELSE name \o " " \o typ

----------------------------------------------------------------------------
(* Context: the output sink.                                               *)

\* the path of the file the Context is bound to (c.file.Desc.Path())
FilePath == <<"d", "/", "t", ".", "p", "r", "o", "t", "o">>

DotGo == <<".", "g", "o">>
DotProto == <<".", "p", "r", "o", "t", "o">>
DotPbGo == <<".", "p", "b", ".", "g", "o">>

\* filepath.Base(path) for a clean, non-empty path without a trailing separator
RECURSIVE Base(_)
Base(path) ==
    IF \E i \in 1..Len(path) : path[i] = "/"
    THEN Base(Tail(path))
    ELSE path

\* gen.NewGeneratedFile(name, ...): a new, empty generated file
NewGeneratedFile(files, name) == Append(files, [name |-> name, written |-> <<>>])

\* createOutputFile: the name it gives the file
OutputFileName(path) == TrimSuffix(Base(path), DotProto) \o DotPbGo

\* NewOutputFile: the name it gives the file
NamedFileName(filename) ==
    IF ~HasSuffix(filename, DotGo) THEN filename \o DotGo ELSE filename

\* mutant of GenerateLoop: only the lines the sink has not yet received are
\* written
GenerateLoopUnflushed(written, ls) ==
    written \o SubSeq(ls, Len(written) + 1, Len(ls))

\* mutant of GenerateLoop: empty lines are not written
RECURSIVE GenerateLoopSkipEmpty(_, _)
GenerateLoopSkipEmpty(written, ls) ==
    IF Len(ls) = 0 THEN written
    ELSE IF Head(ls) = "" THEN GenerateLoopSkipEmpty(written, Tail(ls))
    ELSE GenerateLoopSkipEmpty(Append(written, Head(ls)), Tail(ls))

\* Generate: the loop  for _, line := range cb.lines { cb.ctx.output.P(line) },
\* written being what the sink has received, one entry per call of P
RECURSIVE GenerateLoop(_, _)
GenerateLoop(written, ls) ==
    IF Len(ls) = 0 THEN written
    ELSE GenerateLoop(Append(written, Head(ls)), Tail(ls))

\* createOutputFile, on the Context fields c = [output, genfiles]
CreateOutputFile(c) ==
    IF c.output # 0 THEN c
    ELSE [output   |-> Len(c.genfiles) + 1,
          genfiles |-> NewGeneratedFile(c.genfiles, OutputFileName(FilePath))]

\* NewOutputFile(filename): always a new file, which becomes the output
DoNewOutputFile(c, filename) ==
    [output   |-> Len(c.genfiles) + 1,
     genfiles |-> NewGeneratedFile(c.genfiles, NamedFileName(filename))]

\* Context.Import(importPath), on the Context fields c: the sink is made if
\* there is none; the identifier the sink returns is not kept by the Context
DoContextImport(c) == IF c.output = 0 THEN CreateOutputFile(c) ELSE c

\* mutant of DoGenerate: a new sink is made for every flush
DoGenerateNewSink(c, b) ==
    LET c1 == [output   |-> Len(c.genfiles) + 1,
               genfiles |-> NewGeneratedFile(c.genfiles, OutputFileName(FilePath))]
    IN  [c1 EXCEPT !.genfiles[c1.output].written = GenerateLoop(@, b.lines)]

\* cb.Generate(), on the Context fields c and the builder b
DoGenerate(c, b) ==
    LET c1 == IF c.output = 0 THEN CreateOutputFile(c) ELSE c
    IN  [c1 EXCEPT !.genfiles[c1.output].written = GenerateLoop(@, b.lines)]

----------------------------------------------------------------------------
(* The schema facade (file.go).  A descriptor is a record; a wrapper is    *)
(* [proto |-> the descriptor it wraps, Name |-> its cached name].  A Go    *)
(* slice is [nil |-> whether it is the nil slice, elems |-> its elements]. *)

\* protoreflect.Kind: the values of the kinds the facade compares against
EnumKind == 14
MessageKind == 11
GroupKind == 10
NumKinds == 18
Kinds == 1..NumKinds

\* the facts of a field descriptor: every kind, and the map field, whose kind
\* is message (its type is the synthetic map-entry message)
FieldFacts ==
    [k \in 1..(NumKinds + 1) |->
        IF k <= NumKinds THEN [kind |-> k, isMap |-> FALSE]
                         ELSE [kind |-> MessageKind, isMap |-> TRUE]]

\* the j-th field of a message, k0 choosing which facts the first field has
MkField(j, k0) ==
    LET facts == FieldFacts[((k0 + j - 2) % (NumKinds + 1)) + 1]
    IN  [id |-> "f" \o ToString(j), name |-> "fld" \o ToString(j),
         kind |-> facts.kind, isMap |-> facts.isMap,
         enum |-> IF facts.kind = EnumKind THEN "pkg.E" ELSE "",
         message |-> IF facts.kind \in {MessageKind, GroupKind}
                     THEN (IF facts.isMap THEN "pkg.M.FldEntry" ELSE "pkg.R")
                     ELSE ""]

\* the oneofs of a message with n fields: none, one holding the first field,
\* or that one and a second holding the other fields (a oneof is never empty)
MkOneofs(n, k0) ==
    IF n = 0 THEN <<>>
    ELSE IF n = 1
    THEN <<[id |-> "o1", name |-> "one1", Fields |-> <<MkField(1, k0)>>]>>
    ELSE <<[id |-> "o1", name |-> "one1", Fields |-> <<MkField(1, k0)>>],
           [id |-> "o2", name |-> "one2",
            Fields |-> [j \in 1..(n - 1) |-> MkField(j + 1, k0)]]>>

MkMessage(i, n, k0) ==
    [id |-> "m" \o ToString(i), name |-> "Msg" \o ToString(i),
     Fields |-> [j \in 1..n |-> MkField(j, k0)],
     Oneofs |-> MkOneofs(n, k0)]

MkService(i, n) ==
    [id |-> "s" \o ToString(i), name |-> "Svc" \o ToString(i),
     Methods |-> [j \in 1..n |-> [id |-> "r" \o ToString(j),
                                  name |-> "Rpc" \o ToString(j)]]]

MkEnum(i, n) ==
    [id |-> "e" \o ToString(i), name |-> "Enum" \o ToString(i),
     Values |-> [j \in 1..n |-> [id |-> "v" \o ToString(j),
                                 name |-> "VAL" \o ToString(j)]]]

\* a file with nM messages, nS services and nE enums, each with nSub children
MkFile(nM, nS, nE, nSub, k0) ==
    [id |-> "file",
     Messages |-> [i \in 1..nM |-> MkMessage(i, nSub, k0)],
     Services |-> [i \in 1..nS |-> MkService(i, nSub)],
     Enums    |-> [i \in 1..nE |-> MkEnum(i, nSub)]]

\* var s []*T
NilSlice == [nil |-> TRUE, elems |-> <<>>]

\* make([]*T, 0, n)
MakeSlice(n) == [nil |-> FALSE, elems |-> <<>>]

\* append(s, x)
GoAppend(s, x) == [nil |-> FALSE, elems |-> Append(s.elems, x)]

\* &T{proto: d, Name: string(d.Desc.Name())}
Wrap(d) == [proto |-> d, Name |-> d.name]

\* mutant of WrapLoop: each wrapper put in front of the ones before it
RECURSIVE WrapLoopPrepend(_, _)
WrapLoopPrepend(s, children) ==
    IF Len(children) = 0 THEN s
    ELSE WrapLoopPrepend([nil |-> FALSE, elems |-> <<Wrap(Head(children))>> \o s.elems],
                         Tail(children))

\* for _, d := range children { s = append(s, &T{...}) }
RECURSIVE WrapLoop(_, _)
WrapLoop(s, children) ==
    IF Len(children) = 0 THEN s
    ELSE WrapLoop(GoAppend(s, Wrap(Head(children))), Tail(children))

\* the listing accessors of src/file.go, which start from the nil slice
MessagesVar(f) == WrapLoop(NilSlice, f.proto.Messages)
ServicesVar(f) == WrapLoop(NilSlice, f.proto.Services)
EnumsVar(f) == WrapLoop(NilSlice, f.proto.Enums)
FieldsVar(m) == WrapLoop(NilSlice, m.proto.Fields)
OneofsVar(m) == WrapLoop(NilSlice, m.proto.Oneofs)
MethodsVar(sv) == WrapLoop(NilSlice, sv.proto.Methods)
ValuesVar(e) == WrapLoop(NilSlice, e.proto.Values)
OneofFieldsVar(o) == WrapLoop(NilSlice, o.proto.Fields)

\* the listing accessors of the other copy of file.go, which start from
\* make([]*T, 0, len(children))
MessagesMake(f) == WrapLoop(MakeSlice(Len(f.proto.Messages)), f.proto.Messages)
ServicesMake(f) == WrapLoop(MakeSlice(Len(f.proto.Services)), f.proto.Services)
EnumsMake(f) == WrapLoop(MakeSlice(Len(f.proto.Enums)), f.proto.Enums)
FieldsMake(m) == WrapLoop(MakeSlice(Len(m.proto.Fields)), m.proto.Fields)
OneofsMake(m) == WrapLoop(MakeSlice(Len(m.proto.Oneofs)), m.proto.Oneofs)
MethodsMake(sv) == WrapLoop(MakeSlice(Len(sv.proto.Methods)), sv.proto.Methods)
ValuesMake(e) == WrapLoop(MakeSlice(Len(e.proto.Values)), e.proto.Values)
OneofFieldsMake(o) == WrapLoop(MakeSlice(Len(o.proto.Fields)), o.proto.Fields)

Builds == {"file.go", "part_002"}

\* Field.IsMap
FieldIsMap(f) == f.proto.isMap

\* mutant of FieldIsEnum: the kind compared with the wrong constant
FieldIsEnumWrongKind(f) == f.proto.kind = MessageKind

\* Field.IsEnum
FieldIsEnum(f) == f.proto.kind = EnumKind

\* Field.IsMessage
FieldIsMessage(f) == f.proto.kind = MessageKind

\* protoreflect.Kind.String(), by the value of the kind
KindString ==
    <<"double", "float", "int64", "uint64", "int32", "fixed64", "fixed32", "bool",
      "string", "group", "message", "bytes", "uint32", "enum", "sfixed32",
      "sfixed64", "sint32", "sint64">>

\* mutant of FieldType: the kind's name whatever the kind is
FieldTypeKindName(f) == KindString[f.proto.kind]

\* Field.Type
FieldType(f) ==
    IF FieldIsEnum(f) THEN f.proto.enum
    ELSE IF FieldIsMessage(f) THEN f.proto.message
    ELSE KindString[f.proto.kind]

\* the facade object of the file: &File{proto: f, Name: f.Desc.Path()}
TheFile == [proto |-> proto, Name |-> "d/t.proto"]

NoCall == [op |-> "", on |-> "", n |-> 0]

\* a new builder on a new Context, before the generator has called anything
BuilderInit ==
    /\ cb = [lines |-> <<>>, indent |-> 0]
    /\ stack = <<>>
    /\ nops = 0
    /\ last = [op |-> "", phase |-> "init", arg |-> "", d0 |-> 0, n0 |-> 0,
               mid |-> 0, body |-> 0, fop |-> "", fd |-> 0, w0 |-> 0]
    /\ output = 0
    /\ genfiles = <<>>

\* make(map[K]V): a Go map is [isnil, entries], entries a function on its keys
MakeMap == [isnil |-> FALSE, entries |-> <<>>]
NilMap == [isnil |-> TRUE, entries |-> <<>>]

\* NewPlugin
NewPlugin ==
    [options |-> [Debug |-> FALSE, PackageMapping |-> MakeMap],
     generators |-> <<>>,
     parameterHandler |-> "nil"]

\* a nil error, as [path, cause]: fmt.Errorf wraps a cause with a file's path
NilError == [path |-> <<>>, cause |-> "nil"]

NotRunning ==
    [pc |-> "setup", params |-> <<>>, handled |-> FALSE, fi |-> 0, pending |-> {},
     nctx |-> 0, err |-> NilError]

DriverIdle ==
    /\ plugin = NewPlugin
    /\ regs = <<>>
    /\ request = [parameter |-> <<>>, files |-> <<>>]
    /\ run = NotRunning
    /\ calls = <<>>

FacadeIdle ==
    /\ proto = MkFile(0, 0, 0, 0, 1)
    /\ build = "file.go"
    /\ fret = NoCall

FacadeInit ==
    /\ \E nM \in 0..MaxTop, nS \in 0..MaxTop, nE \in 0..MaxTop,
          nSub \in 0..MaxChildren, k0 \in 1..(NumKinds + 1) :
          proto = MkFile(nM, nS, nE, nSub, k0)
    /\ build \in Builds
    /\ fret = NoCall
    /\ BuilderInit
    /\ DriverIdle

\* a listing accessor op called on the facade object x returns result; n is
\* the number of times in a row it has now been called on x, and prev is
\* what the call before returned when that was the same call
Listed(op, x, children, result) ==
    LET again == fret.op = op /\ fret.on = x.proto.id
    IN  /\ fret' = [op |-> op, on |-> x.proto.id, children |-> children,
                    result |-> result,
                    n |-> IF again THEN 2 ELSE 1,
                    prev |-> IF again THEN fret.result ELSE result]
        /\ UNCHANGED <<proto, build, bvars, dvars>>

\* the facade objects the generator can hold
AllMessages == {Wrap(proto.Messages[i]) : i \in 1..Len(proto.Messages)}
AllServices == {Wrap(proto.Services[i]) : i \in 1..Len(proto.Services)}
AllEnums == {Wrap(proto.Enums[i]) : i \in 1..Len(proto.Enums)}
AllOneofs ==
    UNION {{Wrap(m.proto.Oneofs[i]) : i \in 1..Len(m.proto.Oneofs)} : m \in AllMessages}
AllFields ==
    UNION {{Wrap(m.proto.Fields[i]) : i \in 1..Len(m.proto.Fields)} : m \in AllMessages}

Messages ==
    Listed("Messages", TheFile, proto.Messages,
           IF build = "file.go" THEN MessagesVar(TheFile) ELSE MessagesMake(TheFile))

Services ==
    Listed("Services", TheFile, proto.Services,
           IF build = "file.go" THEN ServicesVar(TheFile) ELSE ServicesMake(TheFile))

Enums ==
    Listed("Enums", TheFile, proto.Enums,
           IF build = "file.go" THEN EnumsVar(TheFile) ELSE EnumsMake(TheFile))

Fields ==
    \E m \in AllMessages :
        Listed("Fields", m, m.proto.Fields,
               IF build = "file.go" THEN FieldsVar(m) ELSE FieldsMake(m))

Oneofs ==
    \E m \in AllMessages :
        Listed("Oneofs", m, m.proto.Oneofs,
               IF build = "file.go" THEN OneofsVar(m) ELSE OneofsMake(m))

Methods ==
    \E sv \in AllServices :
        Listed("Methods", sv, sv.proto.Methods,
               IF build = "file.go" THEN MethodsVar(sv) ELSE MethodsMake(sv))

Values ==
    \E e \in AllEnums :
        Listed("Values", e, e.proto.Values,
               IF build = "file.go" THEN ValuesVar(e) ELSE ValuesMake(e))

OneofFields ==
    \E o \in AllOneofs :
        Listed("OneofFields", o, o.proto.Fields,
               IF build = "file.go" THEN OneofFieldsVar(o) ELSE OneofFieldsMake(o))

\* the generator asks a field for its classification: IsMap, IsEnum, IsMessage
Classify ==
    /\ \E f \in AllFields :
          fret' = [op |-> "Classify", on |-> f.proto.id, field |-> f.proto, n |-> 1,
                   isMap |-> FieldIsMap(f), isEnum |-> FieldIsEnum(f),
                   isMessage |-> FieldIsMessage(f)]
    /\ UNCHANGED <<proto, build, bvars, dvars>>

\* the generator asks a field for the name of its type
Type ==
    /\ \E f \in AllFields :
          fret' = [op |-> "Type", on |-> f.proto.id, field |-> f.proto, n |-> 1,
                   result |-> FieldType(f)]
    /\ UNCHANGED <<proto, build, bvars, dvars>>

FacadeNext ==
    \/ Messages \/ Services \/ Enums \/ Fields \/ Oneofs \/ Methods \/ Values
    \/ OneofFields \/ Classify \/ Type

FacadeSpec == FacadeInit /\ [][FacadeNext]_vars

----------------------------------------------------------------------------
(* The Driver (plugin.go).  Patterns and paths are character sequences.    *)

Separator == "/"
Star == <<"*">>
StarDotProto == <<"*", ".", "p", "r", "o", "t", "o">>

\* the characters of the model in ASCII order, for the ranges of a class
Alphabet == <<" ", "*", "-", ".", "/", "?", "[", "\\", "]", "^", "a", "d", "e",
              "g", "o", "p", "r", "t", "x">>
Ord(c) == CHOOSE i \in 1..Len(Alphabet) : Alphabet[i] = c

Drop(s, k) == SubSeq(s, k + 1, Len(s))

\* strings.Contains(s, substr), on character sequences
Contains(s, substr) ==
    \E i \in 0..(Len(s) - Len(substr)) : SubSeq(s, i + 1, i + Len(substr)) = substr

\* filepath.Match's getEsc: one, possibly escaped, character of a class;
\* [ok, c, rest]
GetEsc(chunk) ==
    IF Len(chunk) = 0 THEN [ok |-> FALSE, c |-> "", rest |-> <<>>]
    ELSE IF chunk[1] \in {"-", "]"} THEN [ok |-> FALSE, c |-> "", rest |-> <<>>]
    ELSE LET esc == chunk[1] = "\\"
             body == IF esc THEN Tail(chunk) ELSE chunk
         IN  IF Len(body) = 0 \/ Len(body) = 1
             THEN [ok |-> FALSE, c |-> "", rest |-> <<>>]
             ELSE [ok |-> TRUE, c |-> body[1], rest |-> Tail(body)]

\* filepath.Match's character class, chunk being what follows "[" and "^":
\* [ok, hit, rest], hit telling whether r is in one of the ranges
RECURSIVE ParseRanges(_, _, _, _)
ParseRanges(chunk, nrange, r, hit) ==
    IF Len(chunk) > 0 /\ chunk[1] = "]" /\ nrange > 0
    THEN [ok |-> TRUE, hit |-> hit, rest |-> Tail(chunk)]
    ELSE LET lo == GetEsc(chunk)
         IN  IF ~lo.ok THEN [ok |-> FALSE, hit |-> FALSE, rest |-> <<>>]
             ELSE IF lo.rest[1] = "-"
             THEN LET hi == GetEsc(Tail(lo.rest))
                  IN  IF ~hi.ok THEN [ok |-> FALSE, hit |-> FALSE, rest |-> <<>>]
                      ELSE ParseRanges(hi.rest, nrange + 1, r,
                                       hit \/ (r # "" /\ Ord(lo.c) <= Ord(r)
                                                      /\ Ord(r) <= Ord(hi.c)))
             ELSE ParseRanges(lo.rest, nrange + 1, r, hit \/ (r # "" /\ lo.c = r))

\* the class that starts at pattern[1] = "[", tried on the character r
\* ("" when the name is exhausted): [ok, matches, rest]
ParseClass(pattern, r) ==
    LET negated == Len(pattern) > 1 /\ pattern[2] = "^"
        parsed == ParseRanges(Drop(pattern, IF negated THEN 2 ELSE 1), 0, r, FALSE)
    IN  [ok |-> parsed.ok, rest |-> parsed.rest,
         matches |-> parsed.ok /\ r # "" /\ (parsed.hit # negated)]

\* whether filepath.Match finds the pattern well-formed
RECURSIVE WellFormed(_)
WellFormed(pattern) ==
    IF Len(pattern) = 0 THEN TRUE
    ELSE IF pattern[1] = "\\" THEN Len(pattern) >= 2 /\ WellFormed(Drop(pattern, 2))
    ELSE IF pattern[1] = "["
    THEN LET class == ParseClass(pattern, "")
         IN  class.ok /\ WellFormed(class.rest)
    ELSE WellFormed(Tail(pattern))

\* whether a well-formed pattern matches the whole name
RECURSIVE GlobMatch(_, _)
GlobMatch(pattern, name) ==
    IF Len(pattern) = 0 THEN Len(name) = 0
    ELSE IF pattern[1] = "*"
    THEN \/ GlobMatch(Tail(pattern), name)
         \/ /\ Len(name) > 0
            /\ name[1] # Separator
            /\ GlobMatch(pattern, Tail(name))
    ELSE IF Len(name) = 0 THEN FALSE
    ELSE IF pattern[1] = "?"
    THEN name[1] # Separator /\ GlobMatch(Tail(pattern), Tail(name))
    ELSE IF pattern[1] = "["
    THEN LET class == ParseClass(pattern, name[1])
         IN  class.matches /\ GlobMatch(class.rest, Tail(name))
    ELSE IF pattern[1] = "\\"
    THEN pattern[2] = name[1] /\ GlobMatch(Drop(pattern, 2), Tail(name))
    ELSE pattern[1] = name[1] /\ GlobMatch(Tail(pattern), Tail(name))

\* filepath.Match(pattern, name): [matched, err], err being ErrBadPattern
\* (Go 1.16 and later report a malformed pattern whatever the name is)
FilepathMatch(pattern, name) ==
    IF ~WellFormed(pattern) THEN [matched |-> FALSE, err |-> TRUE]
    ELSE [matched |-> GlobMatch(pattern, name), err |-> FALSE]

\* mutant of matchesPattern: the two shorthand patterns go to the matcher too
matchesPatternNoShorthand(path, pattern) ==
    LET m == FilepathMatch(pattern, path)
    IN  IF m.err THEN Contains(path, TrimSuffix(pattern, Star)) ELSE m.matched

\* mutant of matchesPattern: a malformed pattern matches nothing
matchesPatternNoFallback(path, pattern) ==
    IF pattern = Star \/ pattern = StarDotProto THEN TRUE
    ELSE FilepathMatch(pattern, path).matched

\* Plugin.matchesPattern
matchesPattern(path, pattern) ==
    IF pattern = Star \/ pattern = StarDotProto THEN TRUE
    ELSE LET m == FilepathMatch(pattern, path)
         IN  IF m.err THEN Contains(path, TrimSuffix(pattern, Star)) ELSE m.matched

\* mutant of MapPut: a key the map already has keeps its value
MapPutKeepFirst(m, k, v) ==
    [x \in (DOMAIN m) \cup {k} |-> IF x \in DOMAIN m THEN m[x] ELSE v]

\* m[k] = v on the entries of a Go map
MapPut(m, k, v) == [x \in (DOMAIN m) \cup {k} |-> IF x = k THEN v ELSE m[x]]

\* strings.Index(s, sep) for a one-character sep, 0 when it is absent
Index(s, sep) ==
    IF \E i \in 1..Len(s) : s[i] = sep
    THEN CHOOSE i \in 1..Len(s) : s[i] = sep /\ \A j \in 1..(i - 1) : s[j] # sep
    ELSE 0

\* strings.Split(s, sep)
RECURSIVE Split(_, _)
Split(s, sep) ==
    LET i == Index(s, sep)
    IN  IF i = 0 THEN <<s>>
        ELSE <<SubSeq(s, 1, i - 1)>> \o Split(Drop(s, i), sep)

\* strings.SplitN(s, sep, 2)
SplitN2(s, sep) ==
    LET i == Index(s, sep)
    IN  IF i = 0 THEN <<s>> ELSE <<SubSeq(s, 1, i - 1), Drop(s, i)>>

\* strings.TrimSpace(s)
RECURSIVE TrimSpace(_)
TrimSpace(s) ==
    IF Len(s) = 0 THEN s
    ELSE IF s[1] = " " THEN TrimSpace(Tail(s))
    ELSE IF s[Len(s)] = " " THEN TrimSpace(SubSeq(s, 1, Len(s) - 1))
    ELSE s

DebugKey == <<"d", "e", "b", "u", "g">>
PackageMappingKey == <<"p", "a", "c", "k", "a", "g", "e", "_", "m", "a", "p", "p", "i", "n", "g">>
TrueValue == <<"t", "r", "u", "e">>
OneValue == <<"1">>

\* parseParameters' loop over the pairs, params being the map so far
RECURSIVE ParsePairs(_, _)
ParsePairs(pairs, params) ==
    IF Len(pairs) = 0 THEN params
    ELSE LET kv == SplitN2(pairs[1], "=")
         IN  IF Len(kv) = 2
             THEN ParsePairs(Tail(pairs), MapPut(params, TrimSpace(kv[1]), TrimSpace(kv[2])))
             ELSE ParsePairs(Tail(pairs), MapPut(params, TrimSpace(pairs[1]), TrueValue))

\* mutant of parseParameters: the pairs are taken last to first
parseParametersBackwards(parameter) ==
    IF Len(parameter) = 0 THEN <<>>
    ELSE LET pairs == Split(parameter, ",")
         IN  ParsePairs([i \in 1..Len(pairs) |-> pairs[Len(pairs) + 1 - i]], <<>>)

\* parseParameters(parameter)
parseParameters(parameter) ==
    IF Len(parameter) = 0 THEN <<>> ELSE ParsePairs(Split(parameter, ","), <<>>)

\* mutant of updateOptionsFromParams: every key is taken for "debug"
updateOptionsFromParamsAnyKey(options, params) ==
    IF DOMAIN params = {} THEN options
    ELSE [options EXCEPT !.Debug =
             \E k \in DOMAIN params : params[k] \in {TrueValue, OneValue}]

\* Plugin.updateOptionsFromParams: the keys of a map are distinct, and the two
\* keys it knows touch different fields, so the order of the range is immaterial
updateOptionsFromParams(options, params) ==
    LET debugged ==
            IF DebugKey \in DOMAIN params
            THEN [options EXCEPT !.Debug = params[DebugKey] \in {TrueValue, OneValue}]
            ELSE options
    IN  IF PackageMappingKey \in DOMAIN params
        THEN LET mapping == SplitN2(params[PackageMappingKey], ":")
             IN  IF Len(mapping) = 2
                 THEN [debugged EXCEPT !.PackageMapping =
                          [isnil |-> FALSE,
                           entries |-> MapPut(@.entries, mapping[1], mapping[2])]]
                 ELSE debugged
        ELSE debugged

\* the parameter strings protoc passes
Parameters == {<<>>, <<"d", "e", "b", "u", "g">>, 
               <<" ", "d", "e", "b", "u", "g", " ", "=", " ", "0", ",", "x">>, 
               <<"p", "a", "c", "k", "a", "g", "e", "_", "m", "a", "p", "p", "i", "n", "g", "=", "a", ":", "d", ",", "p", "a", "c", "k", "a", "g", "e", "_", "m", "a", "p", "p", "i", "n", "g", "=", "p", ":", "o">>}

\* the Options the plugin's main passes to WithOptions
OptionsValues ==
    {[Debug |-> TRUE, PackageMapping |-> NilMap],
     [Debug |-> FALSE,
      PackageMapping |-> [isnil |-> FALSE, entries |-> MapPut(<<>>, <<"p">>, <<"t">>)]]}

\* the patterns the plugin's main registers, the paths protoc passes
Patterns == {Star, StarDotProto, <<"a", "*">>, <<"[", "*">>}
Paths == {<<"a", ".", "p", "r", "o", "t", "o">>,
          <<"d", "/", "[", "a", ".", "p", "r", "o", "t", "o">>}
ProtoFiles == [path : Paths, Generate : BOOLEAN]
GeneratorErrors == {"nil", "failed"}

DriverInit ==
    /\ plugin = NewPlugin
    /\ regs = <<>>
    /\ \E parameter \in Parameters, n \in 0..MaxFiles :
          \E fs \in [1..n -> ProtoFiles] :
             request = [parameter |-> parameter, files |-> fs]
    /\ run = NotRunning
    /\ calls = <<>>
    /\ BuilderInit
    /\ FacadeIdle

\* GenerateFor(pattern, generator); the generator registered by the n-th call
\* is generator n
GenerateFor ==
    /\ run.pc = "setup"
    /\ Len(regs) < MaxRegs
    /\ \E pattern \in Patterns :
          LET generator == Len(regs) + 1
          IN  /\ plugin' = [plugin EXCEPT !.generators = MapPut(@, pattern, generator)]
              /\ regs' = Append(regs, [pattern |-> pattern, generator |-> generator])
    /\ UNCHANGED <<request, run, calls, bvars, fvars>>

\* WithOptions(opts)
WithOptions ==
    /\ run.pc = "setup"
    /\ \E opts \in OptionsValues :
          plugin' = [plugin EXCEPT !.options =
                        IF opts.PackageMapping.isnil
                        THEN [opts EXCEPT !.PackageMapping = MakeMap]
                        ELSE opts]
    /\ UNCHANGED <<regs, request, run, calls, bvars, fvars>>

\* WithParameterHandler(handler), the handler being the README's, whose body
\* is empty
WithParameterHandler ==
    /\ run.pc = "setup"
    /\ plugin' = [plugin EXCEPT !.parameterHandler = "custom"]
    /\ UNCHANGED <<regs, request, run, calls, bvars, fvars>>

\* Run, up to the loop over gen.Files: the parameters are parsed, the options
\* updated from them and the parameter handler, if there is one, called
Run ==
    /\ run.pc = "setup"
    /\ LET params == parseParameters(request.parameter)
       IN  /\ plugin' = [plugin EXCEPT
                            !.options = updateOptionsFromParams(@, params)]
           /\ run' = [run EXCEPT !.pc = "file", !.fi = 1, !.params = params,
                                 !.handled = plugin.parameterHandler # "nil"]
    /\ UNCHANGED <<regs, request, calls, bvars, fvars>>

\* for _, f := range gen.Files: a file that is not to be generated
SkipFile ==
    /\ run.pc = "file"
    /\ run.fi <= Len(request.files)
    /\ ~request.files[run.fi].Generate
    /\ run' = [run EXCEPT !.fi = @ + 1]
    /\ UNCHANGED <<plugin, regs, request, calls, bvars, fvars>>

\* mutant of EnterFile: the Context of the file before is used again
EnterFileSameContext ==
    /\ run.pc = "file"
    /\ run.fi <= Len(request.files)
    /\ request.files[run.fi].Generate
    /\ run' = [run EXCEPT !.pc = "range", !.pending = DOMAIN plugin.generators,
                          !.nctx = 1]
    /\ UNCHANGED <<plugin, regs, request, calls, bvars, fvars>>

\* a file to be generated: the File and the Context are made, and the range
\* over p.generators begins
EnterFile ==
    /\ run.pc = "file"
    /\ run.fi <= Len(request.files)
    /\ request.files[run.fi].Generate
    /\ run' = [run EXCEPT !.pc = "range", !.pending = DOMAIN plugin.generators,
                          !.nctx = @ + 1]
    /\ UNCHANGED <<plugin, regs, request, calls, bvars, fvars>>

\* for pattern, generator := range p.generators: Go visits the entries of a
\* map in an order it does not specify; an entry whose pattern does not match
SkipPattern ==
    /\ run.pc = "range"
    /\ \E pattern \in run.pending :
          /\ ~matchesPattern(request.files[run.fi].path, pattern)
          /\ run' = [run EXCEPT !.pending = @ \ {pattern}]
    /\ UNCHANGED <<plugin, regs, request, calls, bvars, fvars>>

\* mutant of Invoke: the generator's error is dropped and the range goes on
InvokeIgnoringError ==
    /\ run.pc = "range"
    /\ \E pattern \in run.pending, err \in GeneratorErrors :
          LET path == request.files[run.fi].path
          IN  /\ matchesPattern(path, pattern)
              /\ calls' = Append(calls, [fi |-> run.fi, path |-> path,
                                         pattern |-> pattern,
                                         generator |-> plugin.generators[pattern],
                                         ctx |-> run.nctx,
                                         debug |-> plugin.options.Debug,
                                         err |-> err])
              /\ run' = [run EXCEPT !.pending = @ \ {pattern}]
    /\ UNCHANGED <<plugin, regs, request, bvars, fvars>>

\* an entry whose pattern matches: generator(ctx, file) is called, and its
\* error, if any, ends Run
Invoke ==
    /\ run.pc = "range"
    /\ \E pattern \in run.pending, err \in GeneratorErrors :
          LET path == request.files[run.fi].path
          IN  /\ matchesPattern(path, pattern)
              /\ calls' = Append(calls, [fi |-> run.fi, path |-> path,
                                         pattern |-> pattern,
                                         generator |-> plugin.generators[pattern],
                                         ctx |-> run.nctx,
                                         debug |-> plugin.options.Debug,
                                         err |-> err])
              /\ run' = IF err # "nil"
                        THEN [run EXCEPT !.pc = "done", !.pending = {},
                                         !.err = [path |-> path, cause |-> err]]
                        ELSE [run EXCEPT !.pending = @ \ {pattern}]
    /\ UNCHANGED <<plugin, regs, request, bvars, fvars>>

\* the range over p.generators is over: the next file
LeaveFile ==
    /\ run.pc = "range"
    /\ run.pending = {}
    /\ run' = [run EXCEPT !.pc = "file", !.fi = @ + 1]
    /\ UNCHANGED <<plugin, regs, request, calls, bvars, fvars>>

\* the loop over gen.Files is over: return nil
RunReturn ==
    /\ run.pc = "file"
    /\ run.fi > Len(request.files)
    /\ run' = [run EXCEPT !.pc = "done"]
    /\ UNCHANGED <<plugin, regs, request, calls, bvars, fvars>>

DriverNext ==
    \/ WithOptions \/ GenerateFor \/ WithParameterHandler \/ Run \/ SkipFile \/ EnterFile \/ SkipPattern \/ Invoke
    \/ LeaveFile \/ RunReturn

DriverSpec == DriverInit /\ [][DriverNext]_vars

\* the driver on a request that carries no parameter string
DispatchInit == DriverInit /\ request.parameter = <<>>

DispatchSpec == DispatchInit /\ [][DriverNext]_vars

----------------------------------------------------------------------------
(* The driver's helper functions on their own, applied to arguments drawn  *)
(* from small sets.                                                        *)

\* the paths and patterns matchesPattern is applied to
MatchPaths ==
    {<<>>,
     <<"a", ".", "p", "r", "o", "t", "o">>,
     <<"d", "/", "a", ".", "p", "r", "o", "t", "o">>,
     <<"a", ".", "t", "x", "t">>,
     <<"d", "/", "e", "/", "a", ".", "g", "o">>,
     <<"[", "a", ".", "p", "r", "o", "t", "o">>,
     <<"a", " ", "d", ".", "p", "r", "o", "t", "o">>}
MatchPatterns ==
    {<<"*">>,
     <<"*", ".", "p", "r", "o", "t", "o">>,
     <<"a", "*">>,
     <<"[", "*">>,
     <<"*", ".", "t", "x", "t">>,
     <<"d", "/", "*">>,
     <<"?", ".", "p", "r", "o", "t", "o">>,
     <<"[", "a", "-", "d", "]", "*">>,
     <<"a", ".", "p", "r", "o", "t", "o">>,
     <<"*", "*">>,
     <<"[", "*", ".", "p", "r", "o", "t", "o">>,
     <<"*", ".", "p", "r", "o", "t", "o", "*">>}

\* p.matchesPattern(path, pattern)
MatchesPattern ==
    /\ \E path \in MatchPaths, pattern \in MatchPatterns :
          fret' = [op |-> "matchesPattern", on |-> "", n |-> 1,
                   path |-> path, pattern |-> pattern,
                   result |-> matchesPattern(path, pattern)]
    /\ UNCHANGED <<proto, build, bvars, dvars>>

\* the parameter strings parseParameters is applied to
ParameterStrings ==
    {<<>>,
     <<"d", "e", "b", "u", "g">>,
     <<"d", "e", "b", "u", "g", "=", "t", "r", "u", "e", ",", "p", "a", "c", "k", "a", "g", "e", "_", "m", "a", "p", "p", "i", "n", "g", "=", "a", ":", "d">>,
     <<" ", "d", "e", "b", "u", "g", " ", "=", " ", "0", ",", "x">>,
     <<"x", "=", "a", "=", "d">>,
     <<"x", "=", "a", ",", "x", "=", "d">>,
     <<"x", ",", "x", "=", "d">>,
     <<"x", "=", "d", ",", "x">>,
     <<"a", ",", ",", "d">>,
     <<"=">>,
     <<"x", "=", " ">>,
     <<"p", "a", "c", "k", "a", "g", "e", "_", "m", "a", "p", "p", "i", "n", "g", "=", "a", ":", "d", ",", "p", "a", "c", "k", "a", "g", "e", "_", "m", "a", "p", "p", "i", "n", "g", "=", "p", ":", "o">>,
     <<"d", "e", "b", "u", "g", "=", "1", ",", "x", "=", "e">>,
     <<"p", "a", "c", "k", "a", "g", "e", "_", "m", "a", "p", "p", "i", "n", "g", "=", "a", "d">>,
     <<"d", "e", "b", "u", "g", "=", "t", "r", "u", "e", ",", "p", "a", "c", "k", "a", "g", "e", "_", "m", "a", "p", "p", "i", "n", "g", "=", "a", ":", "d", ",", "x", "=", "e">>}

\* parseParameters(parameter)
ParseParameters ==
    /\ \E parameter \in ParameterStrings :
          fret' = [op |-> "parseParameters", on |-> "", n |-> 1,
                   parameter |-> parameter,
                   result |-> parseParameters(parameter)]
    /\ UNCHANGED <<proto, build, bvars, dvars>>

\* the Options a plugin can hold when Run begins: NewPlugin's, or those
\* WithOptions has stored
OptionsBefore ==
    {NewPlugin.options}
    \cup {IF opts.PackageMapping.isnil
          THEN [opts EXCEPT !.PackageMapping = MakeMap]
          ELSE opts : opts \in OptionsValues}

\* Context.Parameters
ContextParameters(c) == c.parameters

\* Context.GetParameter: [value, exists]
GetParameter(c, key) ==
    IF key \in DOMAIN c.parameters
    THEN [value |-> c.parameters[key], exists |-> TRUE]
    ELSE [value |-> <<>>, exists |-> FALSE]

\* Context.GetParameterWithDefault
GetParameterWithDefault(c, key, defaultValue) ==
    IF key \in DOMAIN c.parameters THEN c.parameters[key] ELSE defaultValue

\* Run's first statements on a plugin holding options: the parameter string
\* is parsed, the options are updated from the mapping, and the mapping is
\* what a Context of the run hands out
UpdateOptions ==
    /\ \E options \in OptionsBefore, parameter \in ParameterStrings :
          LET params == parseParameters(parameter)
              ctx == [parameters |-> params]
          IN  fret' = [op |-> "updateOptionsFromParams", on |-> "", n |-> 1,
                       parameter |-> parameter,
                       before |-> options,
                       after |-> updateOptionsFromParams(options, params),
                       raw |-> ContextParameters(ctx),
                       get |-> [k \in DOMAIN params |-> GetParameter(ctx, k)],
                       getOr |-> [k \in DOMAIN params |->
                                     GetParameterWithDefault(ctx, k, <<>>)]]
    /\ UNCHANGED <<proto, build, bvars, dvars>>

FunctionNext == MatchesPattern \/ ParseParameters \/ UpdateOptions

FunctionInit == BuilderInit /\ FacadeIdle /\ DriverIdle

FunctionSpec == FunctionInit /\ [][FunctionNext]_vars

----------------------------------------------------------------------------
(* The arguments the generator passes, drawn from small sets.              *)

Texts == {"a", ""}
Names == {"T"}
Exprs == {"", "x"}
CaseValues == {"1", "2"}
ImportLists == {<<>>, <<"p">>, <<"p", "q">>}
TagLists == {<<>>, <<"j", "k">>}
ValueLists == {<<>>, <<"1">>}
ReturnLists == {<<>>, <<"a", "nil">>}
Returns == {"", "int"}
ForClauses == {<<"", "", "">>, <<"i", "c", "p">>}
Filenames == {<<"o">>, <<"o", ".", "g", "o">>}

----------------------------------------------------------------------------
(* The call stack of scope operations, and where the generator's code may  *)
(* call what: a callback that receives the *CodeBuilder has the whole      *)
(* CodeBuilder vocabulary, a callback that receives a typed sub-builder    *)
(* has that sub-builder's methods.                                         *)

BlockFamily == {"Block", "Function", "Method", "If", "IfErr", "For", "ForRange"}
CodeFrames == BlockFamily \cup {"Case", "Default"}

Top == stack[Len(stack)]
InCode == IF stack = <<>> THEN TRUE ELSE Top.op \in CodeFrames
InFrame(op) == IF stack = <<>> THEN FALSE ELSE Top.op = op
Budget == nops < MaxOps

\* the running callback has executed one more statement
Advance(st) == IF st = <<>> THEN st ELSE [st EXCEPT ![Len(st)].pos = @ + 1]

NoLast ==
    [op |-> "", phase |-> "init", arg |-> "", d0 |-> 0, n0 |-> 0, mid |-> 0,
     body |-> 0, fop |-> "", fd |-> 0, w0 |-> 0]

\* what is recorded of the operation op(arg) that acts now
ThisCall(op, phase, arg) ==
    [op |-> op, phase |-> phase, arg |-> arg,
     d0 |-> cb.indent, n0 |-> Len(cb.lines), mid |-> Len(cb.lines), body |-> 0,
     fop |-> IF stack = <<>> THEN "" ELSE Top.op,
     fd |-> IF stack = <<>> THEN 0 ELSE Top.d0,
     w0 |-> IF output = 0 THEN 0 ELSE Len(genfiles[output].written)]

\* an operation without a callback: it runs to its end in one step
StepCall(op, arg, b2) ==
    /\ cb' = b2
    /\ nops' = nops + 1
    /\ stack' = Advance(stack)
    /\ last' = ThisCall(op, "call", arg)
    /\ UNCHANGED <<output, genfiles, fvars, dvars>>

\* a scope operation up to the call of its callback
StepEnter(op, arg, b2) ==
    /\ cb' = b2
    /\ nops' = nops + 1
    /\ stack' = Append(stack, [op |-> op, arg |-> arg, d0 |-> cb.indent,
                               n0 |-> Len(cb.lines), pos |-> 0])
    /\ last' = ThisCall(op, "enter", arg)
    /\ UNCHANGED <<output, genfiles, fvars, dvars>>

\* a scope operation from the return of its callback to its own return
StepReturn(ops, b2) ==
    /\ stack # <<>>
    /\ Top.op \in ops
    /\ cb' = b2
    /\ stack' = Advance(SubSeq(stack, 1, Len(stack) - 1))
    /\ last' = [op |-> Top.op, phase |-> "return", arg |-> Top.arg,
                d0 |-> Top.d0, n0 |-> Top.n0, mid |-> Len(cb.lines),
                body |-> Top.pos,
                fop |-> IF Len(stack) = 1 THEN "" ELSE stack[Len(stack) - 1].op,
                fd |-> IF Len(stack) = 1 THEN 0 ELSE stack[Len(stack) - 1].d0,
                w0 |-> 0]
    /\ UNCHANGED <<nops, output, genfiles, fvars, dvars>>

----------------------------------------------------------------------------
(* The builder operations, as the generator's code calls them.             *)

LineAt(t) == InCode /\ StepCall("Line", t, DoLine(cb, t))
BlockAt(op, header) == InCode /\ StepEnter(op, header, BlockOpen(cb, header))
SwitchAt(expr) == InCode /\ StepEnter("Switch", expr, SwitchOpen(cb, expr))
CaseAt(value) == InFrame("Switch") /\ StepEnter("Case", value, CaseOpen(cb, value))
DefaultAt == InFrame("Switch") /\ StepEnter("Default", "", DefaultOpen(cb))

Line == Budget /\ \E t \in Texts : LineAt(t)

EmptyLine == Budget /\ InCode /\ StepCall("EmptyLine", "", DoEmptyLine(cb))

Block == Budget /\ BlockAt("Block", "h")

Function == Budget /\ BlockAt("Function", FunctionHeader("f()"))

Method ==
    /\ Budget
    /\ \E returns \in Returns :
          BlockAt("Method", FunctionHeader(MethodSignature("r T", "m", "", returns)))

If == Budget /\ BlockAt("If", IfHeader("c"))

IfErr == Budget /\ BlockAt("IfErr", IfErrHeader)

For == Budget /\ \E c \in ForClauses : BlockAt("For", ForHeader(c[1], c[2], c[3]))

ForRange == Budget /\ BlockAt("ForRange", ForRangeHeader("v", "s"))

BlockReturn == StepReturn(BlockFamily, BlockClose(cb))

Struct ==
    /\ Budget /\ InCode
    /\ \E name \in Names : StepEnter("Struct", name, StructOpen(cb, name))

StructReturn == StepReturn({"Struct"}, StructClose(cb))

Field ==
    /\ Budget /\ InFrame("Struct")
    /\ \E tags \in TagLists :
          StepCall("Field", FieldText("n", "int", tags),
                   DoLine(cb, FieldText("n", "int", tags)))

EmbeddedField ==
    Budget /\ InFrame("Struct") /\ StepCall("EmbeddedField", "E", DoLine(cb, "E"))

Interface ==
    /\ Budget /\ InCode
    /\ \E name \in Names : StepEnter("Interface", name, InterfaceOpen(cb, name))

InterfaceReturn == StepReturn({"Interface"}, InterfaceClose(cb))

InterfaceMethod ==
    /\ Budget /\ InFrame("Interface")
    /\ \E returns \in Returns :
          StepCall("InterfaceMethod", InterfaceMethodText("m", "", returns),
                   DoLine(cb, InterfaceMethodText("m", "", returns)))

EmbeddedInterface ==
    Budget /\ InFrame("Interface") /\ StepCall("EmbeddedInterface", "E", DoLine(cb, "E"))

ConstBlock == Budget /\ InCode /\ StepEnter("ConstBlock", "", ConstBlockOpen(cb))

ConstBlockReturn == StepReturn({"ConstBlock"}, ConstBlockClose(cb))

ConstEntry ==
    /\ Budget /\ InFrame("ConstBlock")
    /\ StepCall("ConstEntry", ConstEntryText("c", "1"), DoLine(cb, ConstEntryText("c", "1")))

ConstWithType ==
    /\ Budget /\ InFrame("ConstBlock")
    /\ StepCall("ConstWithType", ConstWithTypeText("c", "int", "1"),
                DoLine(cb, ConstWithTypeText("c", "int", "1")))

VarBlock == Budget /\ InCode /\ StepEnter("VarBlock", "", VarBlockOpen(cb))

VarBlockReturn == StepReturn({"VarBlock"}, VarBlockClose(cb))

VarEntry ==
    /\ Budget /\ InFrame("VarBlock")
    /\ \E value \in ValueLists :
          StepCall("VarEntry", VarEntryText("v", "int", value),
                   DoLine(cb, VarEntryText("v", "int", value)))

Switch == Budget /\ \E expr \in Exprs : SwitchAt(expr)

SwitchReturn == StepReturn({"Switch"}, SwitchClose(cb))

Case == Budget /\ \E value \in CaseValues : CaseAt(value)

CaseReturn == StepReturn({"Case"}, CaseClose(cb))

Default == Budget /\ DefaultAt

DefaultReturn == StepReturn({"Default"}, DefaultClose(cb))

ImportBlock ==
    /\ Budget /\ InCode
    /\ \E imports \in ImportLists :
          StepCall("ImportBlock", Join(imports, ","), DoImportBlock(cb, imports))

\* the one-line helpers of the CodeBuilder
HelperLines ==
    {CommentText("t"), PackageText("p")}
    \cup {ReturnText(values) : values \in ReturnLists}
    \cup {AssignText("l", "r"), DeclareAssignText("l", "r"), ConstText("c", "1")}
    \cup {VarText("v", "int", value) : value \in ValueLists}
    \cup {TypeAliasText("A", "int"), RawStringText("s"), BuildTagText("t"),
          GoGenerateText("t")}

Helper == Budget /\ InCode /\ \E s \in HelperLines : StepCall("Helper", s, DoLine(cb, s))

Import == Budget /\ InCode /\ StepCall("Import", "p", DoImport(cb, "p"))

Generate ==
    /\ Budget /\ InCode
    /\ LET c2 == DoGenerate([output |-> output, genfiles |-> genfiles], cb)
       IN  /\ output' = c2.output
           /\ genfiles' = c2.genfiles
    /\ last' = ThisCall("Generate", "call", "")
    /\ nops' = nops + 1
    /\ stack' = Advance(stack)
    /\ UNCHANGED <<cb, fvars, dvars>>

NewOutputFile ==
    /\ Budget
    /\ \E filename \in Filenames :
          LET c2 == DoNewOutputFile([output |-> output, genfiles |-> genfiles], filename)
          IN  /\ output' = c2.output
              /\ genfiles' = c2.genfiles
    /\ last' = ThisCall("NewOutputFile", "call", "")
    /\ nops' = nops + 1
    /\ stack' = Advance(stack)
    /\ UNCHANGED <<cb, fvars, dvars>>

Init == BuilderInit /\ FacadeIdle /\ DriverIdle

Next ==
    \/ Line \/ EmptyLine
    \/ Block \/ Function \/ Method \/ If \/ IfErr \/ For \/ ForRange \/ BlockReturn
    \/ Struct \/ Field \/ EmbeddedField \/ StructReturn
    \/ Interface \/ InterfaceMethod \/ EmbeddedInterface \/ InterfaceReturn
    \/ ConstBlock \/ ConstEntry \/ ConstWithType \/ ConstBlockReturn
    \/ VarBlock \/ VarEntry \/ VarBlockReturn
    \/ Switch \/ Case \/ CaseReturn \/ Default \/ DefaultReturn \/ SwitchReturn
    \/ ImportBlock \/ Helper \/ Import
    \/ Generate \/ NewOutputFile

Spec == Init /\ [][Next]_vars

----------------------------------------------------------------------------
(* One generation unit: what a generator does with its Context.  It takes  *)
(* builders from Code(), writes through the builder it took last and its   *)
(* typed sub-builders, and uses the Context's output sink.                 *)

\* ctx.Code(), between two statements of the generator: a new CodeBuilder,
\* which is the one the generator writes through from now on
Code == Budget /\ stack = <<>> /\ StepCall("Code", "", NewCodeBuilder)

\* ctx.Import(importPath)
ContextImport ==
    /\ Budget
    /\ LET c2 == DoContextImport([output |-> output, genfiles |-> genfiles])
       IN  /\ output' = c2.output
           /\ genfiles' = c2.genfiles
    /\ last' = ThisCall("ContextImport", "call", "p")
    /\ nops' = nops + 1
    /\ stack' = Advance(stack)
    /\ UNCHANGED <<cb, fvars, dvars>>

UnitNext ==
    \/ Code \/ Line \/ EmptyLine
    \/ Struct \/ Field \/ EmbeddedField \/ StructReturn
    \/ Interface \/ InterfaceMethod \/ EmbeddedInterface \/ InterfaceReturn
    \/ ConstBlock \/ ConstEntry \/ ConstWithType \/ ConstBlockReturn
    \/ VarBlock \/ VarEntry \/ VarBlockReturn
    \/ Switch \/ Case \/ CaseReturn \/ Default \/ DefaultReturn \/ SwitchReturn
    \/ Generate \/ NewOutputFile \/ ContextImport

UnitSpec == Init /\ [][UnitNext]_vars

----------------------------------------------------------------------------
(* The switch scenario: inside zero or more Blocks, one Switch whose body  *)
(* adds two Cases and then a Default, each body calling Line once.         *)

ScenarioPrelude ==
    /\ nops = Len(stack)
    /\ \A i \in 1..Len(stack) : stack[i].op = "Block"

ScenarioBlock == ScenarioPrelude /\ Len(stack) < MaxPrelude /\ BlockAt("Block", "h")

ScenarioSwitch == ScenarioPrelude /\ \E expr \in Exprs : SwitchAt(expr)

ScenarioCase ==
    /\ InFrame("Switch")
    /\ Top.pos < 2
    /\ \E value \in CaseValues : CaseAt(value)

ScenarioDefault == InFrame("Switch") /\ Top.pos = 2 /\ DefaultAt

ScenarioLine ==
    /\ stack # <<>>
    /\ Top.op \in {"Case", "Default"}
    /\ Top.pos = 0
    /\ \E t \in Texts : LineAt(t)

ScenarioCaseReturn == stack # <<>> /\ Top.pos = 1 /\ CaseReturn

ScenarioDefaultReturn == stack # <<>> /\ Top.pos = 1 /\ DefaultReturn

ScenarioSwitchReturn == stack # <<>> /\ Top.pos = 3 /\ SwitchReturn

ScenarioBlockReturn == stack # <<>> /\ Top.pos = 1 /\ BlockReturn

ScenarioNext ==
    \/ ScenarioBlock \/ ScenarioSwitch \/ ScenarioCase \/ ScenarioDefault
    \/ ScenarioLine \/ ScenarioCaseReturn \/ ScenarioDefaultReturn
    \/ ScenarioSwitchReturn \/ ScenarioBlockReturn

SwitchSpec == Init /\ [][ScenarioNext]_vars

----------------------------------------------------------------------------
(* Properties.                                                             *)

IsPrefix(s, t) == Len(s) <= Len(t) /\ SubSeq(t, 1, Len(s)) = s

Tabs(n) == Repeat("\t", n)

ScopeOps == BlockFamily \cup {"Struct", "Interface", "ConstBlock", "VarBlock",
                              "Switch", "Case", "Default"}

\* the last line of the buffer
LastLine == cb.lines[Len(cb.lines)]

\* C1: every scope operation returns with the indent it was called at,
\* whatever its body emitted or nested (ImportBlock, which has no callback,
\* included), and the indent is never negative.
IndentBalance ==
    /\ cb.indent >= 0
    /\ (last.phase = "return" /\ last.op \in ScopeOps) => cb.indent = last.d0
    /\ last.op = "ImportBlock" => cb.indent = last.d0

\* C1 witness: an outermost scope operation has returned after a body that
\* nested another scope
IndentBalanceWitness ==
    /\ last.phase = "return"
    /\ stack = <<>>
    /\ last.body >= 1
    /\ Len(cb.lines) >= last.n0 + 4

\* the Switch frame of the scenario, while a Case or Default body runs
ScenarioSwitchFrame == stack[Len(stack) - 1]

\* C4 as claimed: when the scenario's Switch, called at indent d, has returned,
\* the three lines its case and default bodies appended carry d+1 tabs.
SwitchBodyDepthClaimed ==
    (last.op = "Switch" /\ last.phase = "return" /\ last.body = 3) =>
        \A i \in {3, 5, 7} :
            \E t \in Texts : cb.lines[last.n0 + i] = Tabs(last.d0 + 1) \o t

\* C4 amended: in the switch scenario the "case"/"default" header lines carry
\* d+1 tabs and the line each body appends with Line carries d+2 tabs, d being
\* the indent Switch was called at; the finished switch is 8 lines, the header
\* and the closing brace at d tabs.
SwitchBodyDepth ==
    /\ (last.op = "Line" /\ last.fop \in {"Case", "Default"}) =>
          LastLine = Tabs(ScenarioSwitchFrame.d0 + 2) \o last.arg
    /\ (last.op \in {"Case", "Default"} /\ last.phase = "enter") =>
          \E h \in {"case " \o v \o ":" : v \in CaseValues} \cup {"default:"} :
              LastLine = Tabs(ScenarioSwitchFrame.d0 + 1) \o h
    /\ (last.op = "Switch" /\ last.phase = "return") =>
          /\ Len(cb.lines) = last.n0 + 8
          /\ \A i \in {3, 5, 7} :
                \E t \in Texts : cb.lines[last.n0 + i] = Tabs(last.d0 + 2) \o t
          /\ \A i \in {2, 4} :
                \E v \in CaseValues :
                    cb.lines[last.n0 + i] = Tabs(last.d0 + 1) \o "case " \o v \o ":"
          /\ cb.lines[last.n0 + 6] = Tabs(last.d0 + 1) \o "default:"
          /\ cb.lines[last.n0 + 8] = Tabs(last.d0) \o "}"

\* C4 witness: the scenario's Switch, called at indent 1, has returned
SwitchBodyDepthWitness ==
    /\ last.op = "Switch"
    /\ last.phase = "return"
    /\ last.body = 3
    /\ last.d0 = 1

\* the header line of a scope operation called with arg
HeaderOf(op, arg) ==
    CASE op \in BlockFamily -> arg \o " {"
      [] op = "Struct" -> "type " \o arg \o " struct {"
      [] op = "Interface" -> "type " \o arg \o " interface {"
      [] op = "Switch" -> IF arg = "" THEN "switch {" ELSE "switch " \o arg \o " {"
      [] op = "Case" -> "case " \o arg \o ":"
      [] op = "Default" -> "default:"
      [] op = "ConstBlock" -> "const ("
      [] op = "VarBlock" -> "var ("

Braced == BlockFamily \cup {"Switch", "Struct", "Interface"}

\* C5: Case and Default append one header line and nothing after their body;
\* Switch, Block, Struct and Interface append one header line ending in "{"
\* before the body and one "}" line after it, both at the caller's indent.
CaseDefaultAsymmetry ==
    /\ (last.phase = "enter" /\ last.op \in Braced \cup {"Case", "Default"}) =>
          /\ Len(cb.lines) = last.n0 + 1
          /\ LastLine = Tabs(last.d0) \o HeaderOf(last.op, last.arg)
    /\ (last.phase = "return" /\ last.op \in {"Case", "Default"}) =>
          /\ Len(cb.lines) = last.mid
          /\ cb.lines[last.n0 + 1] = Tabs(last.d0) \o HeaderOf(last.op, last.arg)
    /\ (last.phase = "return" /\ last.op \in Braced) =>
          /\ Len(cb.lines) = last.mid + 1
          /\ LastLine = Tabs(last.d0) \o "}"
          /\ cb.lines[last.n0 + 1] = Tabs(last.d0) \o HeaderOf(last.op, last.arg)

\* C5 witness: a Case whose body emitted something has returned
CaseDefaultAsymmetryWitness ==
    /\ last.phase = "return"
    /\ last.op = "Case"
    /\ last.body >= 1
    /\ last.mid > last.n0 + 1

\* C6: Block(header, body) called at indent d appends "<header> {" with d
\* tabs, then the body's lines (those the body appends with Line carry d+1
\* tabs), then "}" with d tabs; with an empty body the two are adjacent.
BlockLayout ==
    /\ (last.phase = "return" /\ last.op \in BlockFamily) =>
          /\ last.mid >= last.n0 + 1
          /\ cb.lines[last.n0 + 1] = Tabs(last.d0) \o last.arg \o " {"
          /\ Len(cb.lines) = last.mid + 1
          /\ cb.lines[last.mid + 1] = Tabs(last.d0) \o "}"
          /\ last.body = 0 => last.mid = last.n0 + 1
    /\ (last.op = "Line" /\ last.fop \in BlockFamily) =>
          /\ Len(cb.lines) = last.n0 + 1
          /\ LastLine = Tabs(last.fd + 1) \o last.arg

\* C6 witness: a Block called at indent 1 has returned after a body that
\* emitted a line
BlockLayoutWitness ==
    /\ last.phase = "return"
    /\ last.op = "Block"
    /\ last.d0 = 1
    /\ last.body = 1
    /\ last.mid = last.n0 + 2

\* C7: every step leaves the lines appended so far as they are: the buffer
\* before the step is a prefix of the buffer after it.
AppendOnly == [][IsPrefix(cb.lines, cb'.lines)]_vars

\* C7 witness: a scope has returned onto a buffer that already held lines
AppendOnlyWitness ==
    /\ last.phase = "return"
    /\ last.n0 >= 1
    /\ Len(cb.lines) >= last.n0 + 2

\* C8: Generate calls the sink's P once per line, in buffer order: what the
\* sink received from this Generate is the line sequence, and nothing when
\* the line sequence is empty.
FlushOrder ==
    last.op = "Generate" =>
        /\ output # 0
        /\ LET w == genfiles[output].written
           IN  /\ Len(w) = last.w0 + Len(cb.lines)
               /\ SubSeq(w, last.w0 + 1, Len(w)) = cb.lines
               /\ cb.lines = <<>> => Len(w) = last.w0

\* C8 witness: Generate has flushed a buffer of two different lines
FlushOrderWitness ==
    /\ last.op = "Generate"
    /\ Len(cb.lines) = 2
    /\ cb.lines[1] # cb.lines[2]

ListingOps == {"Messages", "Services", "Enums", "Fields", "Oneofs", "Methods",
               "Values", "OneofFields"}

\* how many of the given conditions hold
Count(conds) == Cardinality({i \in 1..Len(conds) : conds[i]})

ListingNeverNil == fret.op \in ListingOps => ~fret.result.nil

\* C10: a listing accessor returns one wrapper per child, in declaration
\* order, the i-th wrapping the i-th child and carrying its name, and a second
\* call on the same object returns the same wrappers again.
OrderPreservation ==
    fret.op \in ListingOps =>
        /\ Len(fret.result.elems) = Len(fret.children)
        /\ \A i \in 1..Len(fret.children) :
              /\ fret.result.elems[i].proto = fret.children[i]
              /\ fret.result.elems[i].Name = fret.children[i].name
        /\ fret.n = 2 => fret.prev.elems = fret.result.elems

\* C10 witness: an accessor has been called twice in a row on an object with
\* at least two children
OrderPreservationWitness ==
    /\ fret.op \in ListingOps
    /\ fret.n = 2
    /\ Len(fret.children) >= 2

\* C11: Type() returns the enum's full name iff the kind is enum, the
\* message's full name iff the kind is message, and otherwise the canonical
\* name of the kind; exactly one of the three is the case, and a map field
\* resolves to the full name of its map-entry message.
TypeNameResolution ==
    fret.op = "Type" =>
        LET f == fret.field
            asEnum == fret.result = f.enum
            asMessage == fret.result = f.message
            asKind == fret.result = KindString[f.kind]
        IN  /\ asEnum <=> f.kind = EnumKind
            /\ asMessage <=> f.kind = MessageKind
            /\ asKind <=> f.kind \notin {EnumKind, MessageKind}
            /\ Count(<<asEnum, asMessage, asKind>>) = 1
            /\ f.isMap => fret.result = "pkg.M.FldEntry"

\* C11 witness: Type() has been asked of a map field
TypeNameResolutionWitness ==
    fret.op = "Type" /\ fret.field.isMap /\ fret.result = fret.field.message

----------------------------------------------------------------------------
(* The generation unit's properties                                        *)

\* the methods of the typed sub-builders that emit one line
SubBuilderLineOps == {"Field", "EmbeddedField", "InterfaceMethod", "EmbeddedInterface",
                      "ConstEntry", "ConstWithType", "VarEntry"}

\* C18 (as claimed): a generation pass has one line buffer.  The builder
\* Code() hands out holds the lines the pass has emitted so far, at the
\* indent reached so far, and a line emitted through a typed sub-builder is
\* appended to that buffer at the parent builder's indent.
SingleAccumulator ==
    /\ last.op = "Code"
          => (Len(cb.lines) = last.n0 /\ cb.indent = last.d0)
    /\ (last.op \in SubBuilderLineOps /\ last.phase = "call")
          => /\ Len(cb.lines) = last.n0 + 1
             /\ LastLine = Tabs(last.d0) \o last.arg

\* what the step, if it is an operation of the generator, did to the sink
SinkStep(op) ==
    /\ op \in {"Generate", "ContextImport"}
          => IF output = 0
             THEN /\ output' = Len(genfiles) + 1
                  /\ Len(genfiles') = Len(genfiles) + 1
                  /\ SubSeq(genfiles', 1, Len(genfiles)) = genfiles
             ELSE /\ output' = output
                  /\ Len(genfiles') = Len(genfiles)
                  /\ \A i \in DOMAIN genfiles : i # output => genfiles'[i] = genfiles[i]
    /\ op = "Generate"
          => genfiles'[output'].written =
                (IF output = 0 THEN <<>> ELSE genfiles[output].written) \o cb.lines
    /\ op = "ContextImport" /\ output # 0 => genfiles' = genfiles
    /\ op = "NewOutputFile"
          => /\ output' = Len(genfiles) + 1
             /\ SubSeq(genfiles', 1, Len(genfiles)) = genfiles
    /\ op \notin {"Generate", "ContextImport", "NewOutputFile"}
          => (output' = output /\ genfiles' = genfiles)

\* C19: the sink is made only by Generate or Import finding none, or by
\* NewOutputFile; Generate and Import on a Context that has a sink keep it
\* and make no other, and a flush goes to the sink the Context then has.
LazySink == [][SinkStep(last'.op)]_vars

\* C19 witness: a second flush has gone to the sink the first flush made,
\* which is still the only one
LazySinkWitness ==
    /\ last.op = "Generate"
    /\ last.w0 >= 1
    /\ output = 1
    /\ Len(genfiles) = 1
    /\ Len(genfiles[1].written) > last.w0

\* C21: EmptyLine appends exactly one line, the empty string without any
\* indentation prefix, whatever the indent is, and leaves the indent as it was.
BlankLineRendering ==
    [][last'.op = "EmptyLine"
          => (cb'.lines = Append(cb.lines, "") /\ cb'.indent = cb.indent)]_vars

\* C21 witness: EmptyLine has been called at indent 2, inside a Case of a
\* Switch
BlankLineRenderingWitness ==
    /\ last.op = "EmptyLine"
    /\ last.d0 = 2
    /\ cb.indent = 2
    /\ Len(cb.lines) = last.n0 + 1
    /\ LastLine = ""

\* the number of writes all the sinks of the Context have received
RECURSIVE TotalWritten(_)
TotalWritten(files) ==
    IF Len(files) = 0 THEN 0
    ELSE Len(files[1].written) + TotalWritten(Tail(files))

\* C22: Generate leaves the builder's lines and indent as they are and
\* writes the whole buffer, one write per line, whether or not the lines
\* were flushed before; nothing else writes to a sink.  So k calls of
\* Generate on a builder holding n lines make k * n writes.
GenerateNotConsuming ==
    [][/\ last'.op = "Generate"
          => /\ cb' = cb
             /\ TotalWritten(genfiles') = TotalWritten(genfiles) + Len(cb.lines)
             /\ genfiles'[output'].written =
                   (IF output = 0 THEN <<>> ELSE genfiles[output].written) \o cb.lines
       /\ last'.op # "Generate"
          => TotalWritten(genfiles') = TotalWritten(genfiles)]_vars

\* C22 witness: Generate has been called twice on a builder holding a line,
\* and the sink has received the buffer twice
GenerateNotConsumingWitness ==
    /\ last.op = "Generate"
    /\ Len(cb.lines) >= 1
    /\ output # 0
    /\ genfiles[output].written = cb.lines \o cb.lines
    /\ TotalWritten(genfiles) = 2 * Len(cb.lines)

----------------------------------------------------------------------------
(* The Driver's properties                                                 *)

\* the generators GenerateFor was given whose pattern matches the path,
\* generator n being the one registered by the n-th call
Registered(path) ==
    {regs[i].generator : i \in {j \in DOMAIN regs : matchesPattern(path, regs[j].pattern)}}

\* C3 (as claimed): for each file marked for generation the generators run in
\* the order of their registration, and once Run has returned without an error
\* every registered generator whose pattern matches the file's path has run
RegistrationOrderDispatch ==
    /\ \A i, j \in DOMAIN calls :
          (i < j /\ calls[i].fi = calls[j].fi)
             => calls[i].generator < calls[j].generator
    /\ (run.pc = "done" /\ run.err = NilError)
          => \A f \in DOMAIN request.files :
                request.files[f].Generate
                   => \A g \in Registered(request.files[f].path) :
                         \E i \in DOMAIN calls :
                            calls[i].fi = f /\ calls[i].generator = g

\* C12: a generator's error ends the run: the failing call is the last call
\* Run makes, for whatever pattern or file, and the error the inner run
\* reports is that error wrapped with the path of the call's file; without a
\* failing call the inner run reports no error.
CallbackFailureAborts ==
    /\ \A i \in DOMAIN calls :
          calls[i].err # "nil"
             => /\ i = Len(calls)
                /\ run.pc = "done"
                /\ run.pending = {}
                /\ run.err = [path |-> request.files[calls[i].fi].path,
                              cause |-> calls[i].err]
    /\ (\A i \in DOMAIN calls : calls[i].err = "nil") => run.err = NilError

\* C12 witness: a generator failed on the first file while a second generator
\* was still to run for it and a later file was still to be generated
CallbackFailureAbortsWitness ==
    /\ Len(calls) = 1
    /\ calls[1].err # "nil"
    /\ calls[1].fi = 1
    /\ Cardinality({p \in DOMAIN plugin.generators :
                       matchesPattern(calls[1].path, p)}) >= 2
    /\ \E f \in 2..Len(request.files) :
          /\ request.files[f].Generate
          /\ \E p \in DOMAIN plugin.generators : matchesPattern(request.files[f].path, p)

\* path[i..] for the suffix test of the properties
EndsWith(s, suffix) ==
    Len(s) >= Len(suffix) /\ SubSeq(s, Len(s) - Len(suffix) + 1, Len(s)) = suffix

\* C13: matchesPattern is true of every path when the pattern is exactly "*"
\* or exactly "*.proto".
PatternShorthand ==
    (fret.op = "matchesPattern" /\ fret.pattern \in {<<"*">>, StarDotProto})
        => fret.result

\* C13 witness: a shorthand pattern has been matched against the empty path,
\* or against a path with a directory separator that does not end in .proto
PatternShorthandWitness ==
    /\ fret.op = "matchesPattern"
    /\ fret.pattern \in {<<"*">>, StarDotProto}
    /\ fret.result
    /\ \/ fret.path = <<>>
       \/ /\ \E i \in DOMAIN fret.path : fret.path[i] = "/"
          /\ ~EndsWith(fret.path, <<".", "p", "r", "o", "t", "o">>)

\* the pattern with one trailing "*" removed
SansTrailingStar(pattern) ==
    IF Len(pattern) > 0 /\ pattern[Len(pattern)] = "*"
    THEN SubSeq(pattern, 1, Len(pattern) - 1)
    ELSE pattern

\* the patterns the plugin holds that the glob matcher reports as malformed
Malformed == {p \in DOMAIN plugin.generators : FilepathMatch(p, <<>>).err}

\* the patterns of the calls made for the f-th file
Called(f) == {calls[i].pattern : i \in {j \in DOMAIN calls : calls[j].fi = f}}

\* C14: a malformed pattern does not end the run.  A generator under a
\* malformed pattern is called only for a path that contains the pattern
\* without its trailing "*"; only a generator's own error makes the run
\* report an error; and once the run has returned without one, for every
\* generated file the malformed patterns called are exactly those whose
\* text without the trailing "*" occurs in the path, and every other
\* matching pattern has been called too.
MalformedPatternTolerance ==
    /\ \A i \in DOMAIN calls :
          calls[i].pattern \in Malformed
             => Contains(calls[i].path, SansTrailingStar(calls[i].pattern))
    /\ run.err # NilError => calls[Len(calls)].err # "nil"
    /\ (run.pc = "done" /\ run.err = NilError)
          => \A f \in DOMAIN request.files :
                request.files[f].Generate
                   => /\ \A p \in Malformed :
                            p \in Called(f)
                               <=> Contains(request.files[f].path, SansTrailingStar(p))
                      /\ \A p \in (DOMAIN plugin.generators) \ Malformed :
                            p \in Called(f)
                               <=> \/ p \in {<<"*">>, StarDotProto}
                                   \/ GlobMatch(p, request.files[f].path)

\* C14 witness: a run over two files has returned without an error, with a
\* malformed pattern registered first that was called for one file and not
\* for the other, and a well-formed pattern called after it
MalformedPatternToleranceWitness ==
    /\ run.pc = "done"
    /\ run.err = NilError
    /\ Len(regs) = 2
    /\ regs[1].pattern \in Malformed
    /\ regs[2].pattern \notin Malformed
    /\ \E f, g \in DOMAIN request.files :
          /\ regs[1].pattern \in Called(f)
          /\ regs[1].pattern \notin Called(g)
          /\ request.files[g].Generate
          /\ regs[2].pattern \in Called(g)

\* the key and the value a token of the parameter string stands for: with an
\* "=", what is before the first one and everything after it, both trimmed;
\* without, the token, trimmed, and "true"
HasEquals(token) == \E i \in DOMAIN token : token[i] = "="
FirstEquals(token) ==
    CHOOSE i \in DOMAIN token : token[i] = "=" /\ \A j \in 1..(i - 1) : token[j] # "="
TokenKey(token) ==
    IF HasEquals(token) THEN TrimSpace(SubSeq(token, 1, FirstEquals(token) - 1))
    ELSE TrimSpace(token)
TokenValue(token) ==
    IF HasEquals(token)
    THEN TrimSpace(SubSeq(token, FirstEquals(token) + 1, Len(token)))
    ELSE <<"t", "r", "u", "e">>

\* the comma-separated tokens of a parameter string, by the places of its commas
Tokens(parameter) ==
    LET commas == {i \in DOMAIN parameter : parameter[i] = ","}
        cuts == {0} \cup commas \cup {Len(parameter) + 1}
        starts == cuts \ {Len(parameter) + 1}
        NextCut(c) == CHOOSE d \in cuts : d > c /\ \A e \in cuts : e > c => d <= e
    IN  {[at |-> c, text |-> SubSeq(parameter, c + 1, NextCut(c) - 1)] : c \in starts}

\* C15: parseParameters maps the empty string to the empty mapping; otherwise
\* the mapping has one key per token's key, and the value of a key is the
\* value of the last token that has that key.
ParameterParsing ==
    fret.op = "parseParameters" =>
        IF fret.parameter = <<>> THEN DOMAIN fret.result = {}
        ELSE LET tokens == Tokens(fret.parameter)
             IN  /\ DOMAIN fret.result = {TokenKey(t.text) : t \in tokens}
                 /\ \A k \in DOMAIN fret.result :
                       \E t \in tokens :
                          /\ TokenKey(t.text) = k
                          /\ \A u \in tokens : TokenKey(u.text) = k => u.at <= t.at
                          /\ fret.result[k] = TokenValue(t.text)

\* C15 witness: a parameter string with the same key in two tokens of
\* different values has been parsed
ParameterParsingWitness ==
    /\ fret.op = "parseParameters"
    /\ \E t, u \in Tokens(fret.parameter) :
          /\ t.at < u.at
          /\ TokenKey(t.text) = TokenKey(u.text)
          /\ TokenValue(t.text) # TokenValue(u.text)
          /\ fret.result[TokenKey(u.text)] = TokenValue(u.text)

\* the mapping a parameter string stands for: each token's key with the value
\* of the last token that has that key
Given(parameter) ==
    IF parameter = <<>> THEN <<>>
    ELSE LET tokens == Tokens(parameter)
         IN  [k \in {TokenKey(t.text) : t \in tokens} |->
                 TokenValue((CHOOSE t \in tokens :
                                /\ TokenKey(t.text) = k
                                /\ \A u \in tokens :
                                      TokenKey(u.text) = k => u.at <= t.at).text)]

HasColon(value) == \E i \in DOMAIN value : value[i] = ":"
FirstColon(value) ==
    CHOOSE i \in DOMAIN value : value[i] = ":" /\ \A j \in 1..(i - 1) : value[j] # ":"

\* C16: after the parameter string is parsed and the options updated, Debug is
\* true when the value of "debug" is "true" or "1"; PackageMapping has
\* src -> dst when the value of "package_mapping" is src:dst; without the
\* "debug" key Debug is as before, without the "package_mapping" key
\* PackageMapping is as before, whatever other keys there are; and every
\* other key is in the mapping the Context hands out, with its value.
RecognizedOptionUpdate ==
    fret.op = "updateOptionsFromParams" =>
        LET given == Given(fret.parameter)
            debug == <<"d", "e", "b", "u", "g">>
            mapping == <<"p", "a", "c", "k", "a", "g", "e", "_",
                         "m", "a", "p", "p", "i", "n", "g">>
        IN  /\ (debug \in DOMAIN given /\ given[debug] \in {<<"t", "r", "u", "e">>, <<"1">>})
                  => fret.after.Debug
            /\ (mapping \in DOMAIN given /\ HasColon(given[mapping]))
                  => LET v == given[mapping]
                         src == SubSeq(v, 1, FirstColon(v) - 1)
                         dst == SubSeq(v, FirstColon(v) + 1, Len(v))
                     IN  /\ src \in DOMAIN fret.after.PackageMapping.entries
                         /\ fret.after.PackageMapping.entries[src] = dst
            /\ debug \notin DOMAIN given => fret.after.Debug = fret.before.Debug
            /\ mapping \notin DOMAIN given
                  => fret.after.PackageMapping = fret.before.PackageMapping
            /\ \A k \in (DOMAIN given) \ {debug, mapping} :
                  /\ k \in DOMAIN fret.raw
                  /\ fret.raw[k] = given[k]
                  /\ fret.get[k] = [value |-> given[k], exists |-> TRUE]
                  /\ fret.getOr[k] = given[k]

\* C16 witness: on options with Debug false, a parameter string with
\* debug=true, a package_mapping of the form src:dst and a third key has been
\* applied
RecognizedOptionUpdateWitness ==
    /\ fret.op = "updateOptionsFromParams"
    /\ ~fret.before.Debug
    /\ fret.after.Debug
    /\ fret.after.PackageMapping.entries # fret.before.PackageMapping.entries
    /\ <<"x">> \in DOMAIN fret.raw

\* the package_mapping entries of a parameter string: its tokens with the key
\* "package_mapping" and a value of the form src:dst
MappingEntries(parameter) ==
    IF parameter = <<>> THEN {}
    ELSE {[at |-> t.at,
           src |-> SubSeq(TokenValue(t.text), 1, FirstColon(TokenValue(t.text)) - 1),
           dst |-> SubSeq(TokenValue(t.text), FirstColon(TokenValue(t.text)) + 1,
                          Len(TokenValue(t.text)))] :
             t \in {u \in Tokens(parameter) :
                       /\ TokenKey(u.text) = <<"p", "a", "c", "k", "a", "g", "e", "_",
                                               "m", "a", "p", "p", "i", "n", "g">>
                       /\ HasColon(TokenValue(u.text))}}

\* C17 (as claimed): after the option update PackageMapping has src -> dst for
\* every package_mapping entry of the parameter string (for a source package
\* given twice, the later entry), and still has the entries it held before
\* for the other source packages.
PackageMappingAccumulation ==
    fret.op = "updateOptionsFromParams" =>
        LET entries == MappingEntries(fret.parameter)
            table == fret.after.PackageMapping.entries
            held == fret.before.PackageMapping.entries
        IN  /\ \A e \in entries :
                  (\A l \in entries : l.src = e.src => l.at <= e.at)
                     => (e.src \in DOMAIN table /\ table[e.src] = e.dst)
            /\ \A k \in DOMAIN held :
                  (\A e \in entries : e.src # k)
                     => (k \in DOMAIN table /\ table[k] = held[k])

\* C20 (as claimed): no two generator calls receive the same Context, be
\* they for different files or for the same file.
FreshContextPerCallback ==
    \A i, j \in DOMAIN calls : i # j => calls[i].ctx # calls[j].ctx

\* C20 amended: a Context is made for each file that is generated; the calls
\* for one file all receive that file's Context, and calls for different
\* files receive different Contexts.
FreshContextPerFile ==
    \A i, j \in DOMAIN calls :
        calls[i].ctx = calls[j].ctx <=> calls[i].fi = calls[j].fi

\* C20 witness: two generators have been called for the first file and one
\* for the second
FreshContextPerFileWitness ==
    /\ Len(calls) = 3
    /\ calls[1].fi = calls[2].fi
    /\ calls[1].generator # calls[2].generator
    /\ calls[3].fi # calls[1].fi

\* the generator the latest GenerateFor call for the pattern registered
Latest(pattern) ==
    LET at == {i \in DOMAIN regs : regs[i].pattern = pattern}
    IN  regs[CHOOSE i \in at : \A j \in at : j <= i].generator

\* C23: the plugin holds one generator per pattern registered, the one of
\* the latest GenerateFor call for that pattern; a generator replaced by a
\* later registration is never called; and no file has two calls for the
\* same pattern.
OneGeneratorPerPattern ==
    /\ DOMAIN plugin.generators = {regs[i].pattern : i \in DOMAIN regs}
    /\ \A p \in DOMAIN plugin.generators : plugin.generators[p] = Latest(p)
    /\ \A i \in DOMAIN calls : calls[i].generator = Latest(calls[i].pattern)
    /\ \A i, j \in DOMAIN calls :
          (i # j /\ calls[i].fi = calls[j].fi) => calls[i].pattern # calls[j].pattern

\* C23 witness: a run over a file has returned after two registrations under
\* one pattern, with one call for the file, of the second generator
OneGeneratorPerPatternWitness ==
    /\ run.pc = "done"
    /\ Len(regs) = 2
    /\ regs[1].pattern = regs[2].pattern
    /\ Len(calls) = 1
    /\ calls[1].generator = 2
    /\ calls[1].err = "nil"

====
